---- MODULE Spec2Model ----
(***************************************************************************)
(* Model of the task scheduling engine (lib/dependency-graph.ts), of the   *)
(* services that commit edges and todos to the store (lib/services), of    *)
(* the recalculation queue (lib/utils/critical-path-queue.ts) and of the   *)
(* optimistic todo list of the client (hooks/useOptimisticTodos.ts).       *)
(*                                                                         *)
(* Times are milliseconds, as Date.getTime() gives them.  A todo is a      *)
(* record [id, estimatedDays, dependencies], dependencies being the        *)
(* sequence of dependsOnId values in the order the array holds them.       *)
(***************************************************************************)
EXTENDS Integers, Sequences, FiniteSets, TLC

(***************************************************************************)
(* Bounds of the model.                                                    *)
(***************************************************************************)
MaxEdges == 3
MaxDays == 2
MaxCalls == 2
MaxInitEdges == 1
MaxDepsEach == 1
MaxStoreTodos == 2
MaxTicks == 2

(***************************************************************************)
(* Program constants.                                                      *)
(***************************************************************************)
DAY_MS == 86400000
TOLERANCE_MS == 1000
CACHE_TTL == 5000

TaskIds == {1, 2, 3}
\* Ids no todo of the list ever has (a dangling reference, as 999 in the tests).
MissingIds == {4}
RefIds == TaskIds \cup MissingIds
\* Values of new Date() at a call.
NowValues == {0, 1500}

VARIABLES
    todos,          \* the todo list handed to the engine
    last,           \* the last engine call and its result
    storeDeps,      \* the TodoDependency rows of the store, in creation order
    storeSchedule,  \* the persisted earliestStartDate and isOnCriticalPath by todo id
    calls,          \* the service calls in progress
    storeTodos,     \* estimatedDays of the todos of the store, by id
    cache,          \* the cache of CriticalPathService
    clock,          \* Date.now()
    written,        \* how many writes of the graph are committed, and the latest
                    \* of them whose call has returned
    taskQueue,          \* CriticalPathQueue.queue: the pending tasks
    processing,     \* CriticalPathQueue.processing
    timeSinceLastRun,   \* Date.now() - lastRun, counted up to minInterval
    timers,         \* the setTimeout callbacks not yet called, by remaining delay
    running,        \* the tasks whose promise is not settled
    enqueued,       \* history: how many tasks have been enqueued
    started,        \* history: the task runs started
    timeSinceLastEnd,   \* history: time since a task run last ended, counted
                        \* up to minInterval
    optimisticTodos,    \* useOptimisticTodos: the completed flag of the todos shown
    pendingActions,     \* useOptimisticTodos: the action keys
    awaiting,       \* the optimistic actions awaiting their server call
    overwritten     \* history: syncTodos has replaced optimisticTodos while an
                    \* action was awaiting its server call

engineVars == <<todos, last>>

cacheVars == <<storeTodos, cache, clock, written>>

queueVars ==
    <<taskQueue, processing, timeSinceLastRun, timers, running, enqueued,
      started, timeSinceLastEnd>>

hookVars == <<optimisticTodos, pendingActions, awaiting, overwritten>>

clientVars == <<queueVars, hookVars>>

serviceVars == <<storeDeps, storeSchedule, calls, cacheVars, clientVars>>

vars == <<todos, last, storeDeps, storeSchedule, calls, cacheVars, clientVars>>

(***************************************************************************)
(* JavaScript helpers.                                                     *)
(***************************************************************************)
Range(s) == {s[i] : i \in 1..Len(s)}

MaxOf(S) == CHOOSE m \in S : \A x \in S : x <= m

MinOf(S) == CHOOSE m \in S : \A x \in S : m <= x

\* Object.keys / Object.entries of an object with integer keys: ascending order.
RECURSIVE SortedKeys(_)
SortedKeys(S) ==
    IF S = {} THEN <<>>
    ELSE LET m == MinOf(S) IN <<m>> \o SortedKeys(S \ {m})

\* Array.prototype.indexOf: 0-based, -1 when absent.
IndexOf(s, x) ==
    IF \E i \in 1..Len(s) : s[i] = x
    THEN MinOf({i \in 1..Len(s) : s[i] = x}) - 1
    ELSE -1

\* Array.prototype.slice(start): a negative start counts from the end.
Slice(s, start) ==
    LET from == IF start < 0 THEN (IF Len(s) + start < 0 THEN 0 ELSE Len(s) + start)
                ELSE start
    IN SubSeq(s, from + 1, Len(s))

Reverse(s) == [i \in 1..Len(s) |-> s[Len(s) + 1 - i]]

IdsOf(todoList) == {todoList[i].id : i \in 1..Len(todoList)}

\* todoMap.get(id) of new Map(todos.map(t => [t.id, t])).
todoMapGet(todoList, id) ==
    todoList[CHOOSE i \in 1..Len(todoList) : todoList[i].id = id]

DependsOn(todo, id) == \E k \in 1..Len(todo.dependencies) : todo.dependencies[k] = id

(***************************************************************************)
(* buildAdjacencyList: todo id -> the ids it depends on.                   *)
(***************************************************************************)
buildAdjacencyList(todoList) ==
    [id \in IdsOf(todoList) |-> todoMapGet(todoList, id).dependencies]

\* adjacencyList[node] || []
Neighbors(adjacencyList, node) ==
    IF node \in DOMAIN adjacencyList THEN adjacencyList[node] ELSE <<>>

(***************************************************************************)
(* detectCycleDFS.  visited and recursionStack are shared by all calls;    *)
(* each recursive call works on its own copy of path.  The result carries  *)
(* the sets as the call leaves them.                                       *)
(***************************************************************************)
RECURSIVE detectCycleDFS(_, _, _, _, _)
RECURSIVE dfsNeighbors(_, _, _, _, _, _)

\* Mutant: the slice without the closing node.
cycleFrom_Unclosed(path, neighbor) == Slice(path, IndexOf(path, neighbor))

\* path.slice(path.indexOf(neighbor)).concat([neighbor])
cycleFrom(path, neighbor) == Slice(path, IndexOf(path, neighbor)) \o <<neighbor>>

\* Mutant: the node is never taken off the recursion stack.
detectCycleDFS_KeepsStack(node, adjacencyList, visited, recursionStack, path) ==
    LET r == dfsNeighbors(node, adjacencyList, 1, visited \cup {node},
                          recursionStack \cup {node}, Append(path, node))
    IN IF r.found THEN r
       ELSE [found |-> FALSE, cycle |-> <<>>, visited |-> r.visited,
             recursionStack |-> r.recursionStack, path |-> path]

detectCycleDFS(node, adjacencyList, visited, recursionStack, path) ==
    LET v1 == visited \cup {node}
        s1 == recursionStack \cup {node}
        p1 == Append(path, node)
        r == dfsNeighbors(node, adjacencyList, 1, v1, s1, p1)
    IN IF r.found THEN r
       ELSE [found |-> FALSE, cycle |-> <<>>, visited |-> r.visited,
             recursionStack |-> r.recursionStack \ {node},
             path |-> SubSeq(p1, 1, Len(p1) - 1)]

dfsNeighbors(node, adjacencyList, i, visited, recursionStack, path) ==
    LET neighbors == Neighbors(adjacencyList, node) IN
    IF i > Len(neighbors)
    THEN [found |-> FALSE, cycle |-> <<>>, visited |-> visited,
          recursionStack |-> recursionStack, path |-> path]
    ELSE LET neighbor == neighbors[i] IN
         IF neighbor \notin visited
         THEN LET c == detectCycleDFS(neighbor, adjacencyList, visited,
                                      recursionStack, path)
              IN IF c.found THEN c
                 ELSE dfsNeighbors(node, adjacencyList, i + 1, c.visited,
                                   c.recursionStack, path)
         ELSE IF neighbor \in recursionStack
         THEN [found |-> TRUE,
               cycle |-> cycleFrom(path, neighbor),
               visited |-> visited, recursionStack |-> recursionStack,
               path |-> path]
         ELSE dfsNeighbors(node, adjacencyList, i + 1, visited, recursionStack, path)

\* The loop over Object.keys(adjacencyList) both callers run: DFS from every
\* key not yet visited, until a cycle is found.
RECURSIVE dfsRoots(_, _, _, _, _, _)
dfsRoots(keys, i, adjacencyList, visited, recursionStack, path) ==
    IF i > Len(keys) THEN [found |-> FALSE, cycle |-> <<>>]
    ELSE IF keys[i] \in visited
    THEN dfsRoots(keys, i + 1, adjacencyList, visited, recursionStack, path)
    ELSE LET c == detectCycleDFS(keys[i], adjacencyList, visited, recursionStack, path)
         IN IF c.found THEN [found |-> TRUE, cycle |-> c.cycle]
            ELSE dfsRoots(keys, i + 1, adjacencyList, c.visited, c.recursionStack,
                          c.path)

\* cycle.join(' -> ') after the fixed prefix.
RECURSIVE Join(_)
Join(cycle) ==
    IF Len(cycle) = 0 THEN ""
    ELSE IF Len(cycle) = 1 THEN ToString(cycle[1])
    ELSE ToString(cycle[1]) \o " -> " \o Join(Tail(cycle))

cycleMessage(cycle) == "Circular dependency detected: " \o Join(cycle)

(***************************************************************************)
(* detectCycles: every root starts from an empty path.                     *)
(***************************************************************************)
RECURSIVE detectCyclesLoop(_, _, _, _, _)
detectCyclesLoop(keys, i, adjacencyList, visited, recursionStack) ==
    IF i > Len(keys) THEN [isValid |-> TRUE]
    ELSE IF keys[i] \in visited
    THEN detectCyclesLoop(keys, i + 1, adjacencyList, visited, recursionStack)
    ELSE LET c == detectCycleDFS(keys[i], adjacencyList, visited, recursionStack, <<>>)
         IN IF c.found
            THEN [isValid |-> FALSE,
                  circularDependency |->
                      [cycle |-> c.cycle, message |-> cycleMessage(c.cycle)]]
            ELSE detectCyclesLoop(keys, i + 1, adjacencyList, c.visited,
                                  c.recursionStack)

\* Mutant: the keys are tried as DFS roots from the largest down.
detectCycles_DescendingRoots(adjacencyList) ==
    detectCyclesLoop(Reverse(SortedKeys(DOMAIN adjacencyList)), 1, adjacencyList, {}, {})

\* Mutant: only the first key is tried as a DFS root.
detectCycles_FirstRootOnly(adjacencyList) ==
    detectCyclesLoop(SubSeq(SortedKeys(DOMAIN adjacencyList), 1, 1), 1, adjacencyList,
                     {}, {})

detectCycles(adjacencyList) ==
    detectCyclesLoop(SortedKeys(DOMAIN adjacencyList), 1, adjacencyList, {}, {})

(***************************************************************************)
(* validateDependency(todos, fromTodoId, toTodoId).                        *)
(***************************************************************************)
\* Mutant: the proposed edge is added in the wrong direction.
withProposedDependency_Reversed(adjacencyList, fromTodoId, toTodoId) ==
    [id \in DOMAIN adjacencyList \cup {toTodoId} |->
        IF id = toTodoId
        THEN Append(Neighbors(adjacencyList, toTodoId), fromTodoId)
        ELSE adjacencyList[id]]

withProposedDependency(adjacencyList, fromTodoId, toTodoId) ==
    [id \in DOMAIN adjacencyList \cup {fromTodoId} |->
        IF id = fromTodoId
        THEN Append(Neighbors(adjacencyList, fromTodoId), toTodoId)
        ELSE adjacencyList[id]]

\* Mutant: no early return for a self-dependency.
validateDependency_NoSelfCheck(todoList, fromTodoId, toTodoId) ==
    LET adjacencyList ==
            withProposedDependency(buildAdjacencyList(todoList), fromTodoId, toTodoId)
        r == dfsRoots(SortedKeys(DOMAIN adjacencyList), 1, adjacencyList, {}, {}, <<>>)
    IN IF r.found THEN [isValid |-> FALSE, cycle |-> r.cycle]
       ELSE [isValid |-> TRUE]

\* Mutant: only a direct dependency of toTodoId on fromTodoId is found.
validateDependency_DirectOnly(todoList, fromTodoId, toTodoId) ==
    IF fromTodoId = toTodoId
    THEN [isValid |-> FALSE, cycle |-> <<fromTodoId>>]
    ELSE IF \E i \in 1..Len(todoList) :
                todoList[i].id = toTodoId /\ DependsOn(todoList[i], fromTodoId)
         THEN [isValid |-> FALSE, cycle |-> <<fromTodoId, toTodoId, fromTodoId>>]
         ELSE [isValid |-> TRUE]

validateDependency(todoList, fromTodoId, toTodoId) ==
    IF fromTodoId = toTodoId
    THEN [isValid |-> FALSE, cycle |-> <<fromTodoId>>]
    ELSE LET adjacencyList ==
                 withProposedDependency(buildAdjacencyList(todoList), fromTodoId,
                                        toTodoId)
             r == dfsRoots(SortedKeys(DOMAIN adjacencyList), 1, adjacencyList,
                           {}, {}, <<>>)
         IN IF r.found THEN [isValid |-> FALSE, cycle |-> r.cycle]
            ELSE [isValid |-> TRUE]

(***************************************************************************)
(* topologicalSort: Kahn's algorithm.  The in-degree of a todo is the      *)
(* length of its dependencies array; the queue is seeded in the order of   *)
(* Object.entries(inDegree).                                               *)
(***************************************************************************)
RECURSIVE reduceInDegrees(_, _, _, _, _)
reduceInDegrees(todoList, i, current, inDegree, queue) ==
    IF i > Len(todoList) THEN [inDegree |-> inDegree, queue |-> queue]
    ELSE LET todo == todoList[i] IN
         IF DependsOn(todo, current)
         THEN LET d == inDegree[todo.id] - 1 IN
              reduceInDegrees(todoList, i + 1, current,
                              [inDegree EXCEPT ![todo.id] = d],
                              IF d = 0 THEN Append(queue, todo.id) ELSE queue)
         ELSE reduceInDegrees(todoList, i + 1, current, inDegree, queue)

RECURSIVE kahnLoop(_, _, _, _)
kahnLoop(todoList, inDegree, queue, result) ==
    IF queue = <<>> THEN result
    ELSE LET current == Head(queue)
             r == reduceInDegrees(todoList, 1, current, inDegree, Tail(queue))
         IN kahnLoop(todoList, r.inDegree, r.queue, Append(result, current))

topologicalSort(todoList) ==
    LET inDegree == [id \in IdsOf(todoList) |-> Len(todoMapGet(todoList, id).dependencies)]
        queue == SelectSeq(SortedKeys(DOMAIN inDegree), LAMBDA id : inDegree[id] = 0)
        result == kahnLoop(todoList, inDegree, queue, <<>>)
    IN IF Len(result) = Len(todoList)
       THEN [isNull |-> FALSE, order |-> result]
       ELSE [isNull |-> TRUE, order |-> <<>>]

(***************************************************************************)
(* calculateForwardPass.  baseTime is new Date() of the call.              *)
(***************************************************************************)
durationMs(todo) == todo.estimatedDays * 24 * 60 * 60 * 1000

\* Mutant: the finish of the first dependency, not of the latest one.
maxPredecessorFinish_First(deps, k, scheduleData, acc) ==
    IF Len(deps) = 0 THEN acc ELSE scheduleData[deps[1]].earliestFinish

\* Mutant: the finish of the last dependency, not of the latest one.
maxPredecessorFinish_Last(deps, k, scheduleData, acc) ==
    IF Len(deps) = 0 THEN acc ELSE scheduleData[deps[Len(deps)]].earliestFinish

RECURSIVE maxPredecessorFinish(_, _, _, _)
maxPredecessorFinish(deps, k, scheduleData, acc) ==
    IF k > Len(deps) THEN acc
    ELSE LET depFinish == scheduleData[deps[k]].earliestFinish IN
         maxPredecessorFinish(deps, k + 1, scheduleData,
                              IF depFinish > acc THEN depFinish ELSE acc)

RECURSIVE forwardLoop(_, _, _, _, _)
forwardLoop(todoList, topologicalOrder, i, baseTime, scheduleData) ==
    IF i > Len(topologicalOrder) THEN scheduleData
    ELSE LET todoId == topologicalOrder[i]
             todo == todoMapGet(todoList, todoId)
             start == maxPredecessorFinish(todo.dependencies, 1, scheduleData, baseTime)
         IN forwardLoop(todoList, topologicalOrder, i + 1, baseTime,
                [scheduleData EXCEPT ![todoId].earliestStart = start,
                                     ![todoId].earliestFinish = start + durationMs(todo)])

\* Mutant: every schedule starts at time 0, whenever the call runs.
calculateForwardPass_ZeroEpoch(todoList, topologicalOrder, baseTime) ==
    forwardLoop(todoList, topologicalOrder, 1, 0,
        [id \in IdsOf(todoList) |->
            [earliestStart |-> 0, earliestFinish |-> 0,
             latestStart |-> 0, latestFinish |-> 0,
             slack |-> 0, isOnCriticalPath |-> FALSE]])

calculateForwardPass(todoList, topologicalOrder, baseTime) ==
    forwardLoop(todoList, topologicalOrder, 1, baseTime,
        [id \in IdsOf(todoList) |->
            [earliestStart |-> baseTime, earliestFinish |-> baseTime,
             latestStart |-> baseTime, latestFinish |-> baseTime,
             slack |-> 0, isOnCriticalPath |-> FALSE]])

\* scheduleData[dep.dependsOnId].earliestFinish of an id that has no entry
\* is a TypeError.
forwardPassThrows(todoList) ==
    \E i \in 1..Len(todoList) :
        \E k \in 1..Len(todoList[i].dependencies) :
            todoList[i].dependencies[k] \notin IdsOf(todoList)

(***************************************************************************)
(* calculateBackwardPass.                                                  *)
(***************************************************************************)
Abs(x) == IF x < 0 THEN -x ELSE x

projectEndTimeOf(scheduleData) ==
    MaxOf({scheduleData[id].earliestFinish : id \in DOMAIN scheduleData})

successorTasks(todoList, todoId) ==
    {todoList[i].id : i \in {j \in 1..Len(todoList) : DependsOn(todoList[j], todoId)}}

independentTasks(todoList) ==
    {todoList[i].id : i \in {j \in 1..Len(todoList) :
        /\ Len(todoList[j].dependencies) = 0
        /\ successorTasks(todoList, todoList[j].id) = {}}}

\* Mutant: the comparison of the successors loop reversed.
earliestSuccessorLatestStart_Max(succ, scheduleData, projectEndTime) ==
    MaxOf({projectEndTime} \cup {scheduleData[s].latestStart : s \in succ})

\* Mutant: the successors loop never lowers its starting value.
earliestSuccessorLatestStart_ProjectEnd(succ, scheduleData, projectEndTime) ==
    projectEndTime

\* The minimum the successors loop keeps, starting from projectEndTime.
earliestSuccessorLatestStart(succ, scheduleData, projectEndTime) ==
    MinOf({projectEndTime} \cup {scheduleData[s].latestStart : s \in succ})

\* The reverse-order loop over the tasks that are not independent.
RECURSIVE backwardLoop(_, _, _, _, _, _)
backwardLoop(todoList, indep, reverseOrder, i, projectEndTime, scheduleData) ==
    IF i > Len(reverseOrder) THEN scheduleData
    ELSE LET todoId == reverseOrder[i]
             todo == todoMapGet(todoList, todoId)
             succ == successorTasks(todoList, todoId)
             latestFinish ==
                 IF succ = {} THEN projectEndTime
                 ELSE earliestSuccessorLatestStart(succ, scheduleData, projectEndTime)
             latestStart == latestFinish - durationMs(todo)
             slack == latestStart - scheduleData[todoId].earliestStart
         IN IF todoId \in indep
            THEN backwardLoop(todoList, indep, reverseOrder, i + 1, projectEndTime,
                              scheduleData)
            ELSE backwardLoop(todoList, indep, reverseOrder, i + 1, projectEndTime,
                    [scheduleData EXCEPT
                        ![todoId].latestFinish = latestFinish,
                        ![todoId].latestStart = latestStart,
                        ![todoId].slack = slack,
                        ![todoId].isOnCriticalPath = Abs(slack) < 1000])

\* Mutant: the duration is not subtracted for latestStart.
independentEntry_LatestStartAtEnd(todo, entry, projectEndTime) ==
    LET taskEndTime == entry.earliestFinish
        isCritical == taskEndTime >= projectEndTime - 1000
    IN [entry EXCEPT
           !.isOnCriticalPath = isCritical,
           !.latestFinish = projectEndTime,
           !.latestStart = projectEndTime,
           !.slack = IF isCritical THEN 0 ELSE projectEndTime - taskEndTime]

\* Mutant: an independent task is critical only when it ends after the
\* project end.
independentEntry_StrictlyLater(todo, entry, projectEndTime) ==
    LET taskEndTime == entry.earliestFinish
        isCritical == taskEndTime > projectEndTime
    IN [entry EXCEPT
           !.isOnCriticalPath = isCritical,
           !.latestFinish = projectEndTime,
           !.latestStart = projectEndTime - durationMs(todo),
           !.slack = IF isCritical THEN 0 ELSE projectEndTime - taskEndTime]

\* Mutant: the slack subtraction reversed.
independentEntry_ReversedSlack(todo, entry, projectEndTime) ==
    LET taskEndTime == entry.earliestFinish
        isCritical == taskEndTime >= projectEndTime - 1000
    IN [entry EXCEPT
           !.isOnCriticalPath = isCritical,
           !.latestFinish = projectEndTime,
           !.latestStart = projectEndTime - durationMs(todo),
           !.slack = IF isCritical THEN 0 ELSE taskEndTime - projectEndTime]

\* Mutant: the tolerance added instead of subtracted.
independentEntry_ToleranceSign(todo, entry, projectEndTime) ==
    LET taskEndTime == entry.earliestFinish
        isCritical == taskEndTime >= projectEndTime + 1000
    IN [entry EXCEPT
           !.isOnCriticalPath = isCritical,
           !.latestFinish = projectEndTime,
           !.latestStart = projectEndTime - durationMs(todo),
           !.slack = IF isCritical THEN 0 ELSE projectEndTime - taskEndTime]

\* independentTasks.forEach: each entry is set from its own earliestFinish.
independentEntry(todo, entry, projectEndTime) ==
    LET taskEndTime == entry.earliestFinish
        isCritical == taskEndTime >= projectEndTime - 1000
    IN [entry EXCEPT
           !.isOnCriticalPath = isCritical,
           !.latestFinish = projectEndTime,
           !.latestStart = projectEndTime - durationMs(todo),
           !.slack = IF isCritical THEN 0 ELSE projectEndTime - taskEndTime]

\* Mutant: the tasks that are not the longest keep the latest times of the
\* independent pass.
allIndependentEntry_KeepsLatest(todo, entry, maxDuration) ==
    LET isCritical == todo.estimatedDays = maxDuration
        slack == maxDuration * 24 * 60 * 60 * 1000 - durationMs(todo)
    IN IF isCritical
       THEN [entry EXCEPT !.isOnCriticalPath = TRUE]
       ELSE [entry EXCEPT
                !.isOnCriticalPath = FALSE,
                !.slack = slack,
                !.latestFinish = entry.earliestFinish,
                !.latestStart = entry.earliestStart]

\* The special case of no dependency at all: todos.forEach.
allIndependentEntry(todo, entry, maxDuration) ==
    LET isCritical == todo.estimatedDays = maxDuration
        slack == maxDuration * 24 * 60 * 60 * 1000 - durationMs(todo)
    IN IF isCritical
       THEN [entry EXCEPT !.isOnCriticalPath = TRUE]
       ELSE [entry EXCEPT
                !.isOnCriticalPath = FALSE,
                !.slack = slack,
                !.latestFinish = entry.earliestFinish + slack,
                !.latestStart = entry.earliestStart + slack]

hasAnyDependencies(todoList) ==
    \E i \in 1..Len(todoList) : Len(todoList[i].dependencies) > 0

\* Mutant: the independent tasks are left as the forward pass made them.
calculateBackwardPass_SkipsIndependent(todoList, scheduleData, topologicalOrder) ==
    backwardLoop(todoList, independentTasks(todoList), Reverse(topologicalOrder), 1,
                 projectEndTimeOf(scheduleData), scheduleData)

calculateBackwardPass(todoList, scheduleData, topologicalOrder) ==
    LET projectEndTime == projectEndTimeOf(scheduleData)
        indep == independentTasks(todoList)
        sd1 == backwardLoop(todoList, indep, Reverse(topologicalOrder), 1,
                            projectEndTime, scheduleData)
        sd2 == [id \in DOMAIN sd1 |->
                   IF id \in indep
                   THEN independentEntry(todoMapGet(todoList, id), sd1[id], projectEndTime)
                   ELSE sd1[id]]
        maxDuration == MaxOf({todoList[i].estimatedDays : i \in 1..Len(todoList)})
    IN IF ~hasAnyDependencies(todoList) /\ Len(todoList) > 0
       THEN [id \in DOMAIN sd2 |->
                allIndependentEntry(todoMapGet(todoList, id), sd2[id], maxDuration)]
       ELSE sd2

(***************************************************************************)
(* identifyCriticalPath: the critical ids in Object.entries order, then    *)
(* Array.prototype.sort (stable) by earliestStart.                         *)
(***************************************************************************)
\* The comparator: a negative difference puts a before b.
compareEarliestStart(scheduleData, a, b) ==
    scheduleData[a].earliestStart - scheduleData[b].earliestStart

RECURSIVE InsertSorted(_, _, _)
InsertSorted(sorted, x, scheduleData) ==
    IF sorted = <<>> THEN <<x>>
    ELSE IF compareEarliestStart(scheduleData, x, sorted[Len(sorted)]) < 0
    THEN Append(InsertSorted(SubSeq(sorted, 1, Len(sorted) - 1), x, scheduleData),
                sorted[Len(sorted)])
    ELSE Append(sorted, x)

RECURSIVE StableSort(_, _)
StableSort(s, scheduleData) ==
    IF s = <<>> THEN <<>>
    ELSE InsertSorted(StableSort(SubSeq(s, 1, Len(s) - 1), scheduleData), s[Len(s)],
                      scheduleData)

\* Mutant: the critical ids in key order, not sorted by earliestStart.
identifyCriticalPath_Unsorted(scheduleData) ==
    SelectSeq(SortedKeys(DOMAIN scheduleData),
              LAMBDA id : scheduleData[id].isOnCriticalPath)

identifyCriticalPath(scheduleData) ==
    StableSort(
        SelectSeq(SortedKeys(DOMAIN scheduleData),
                  LAMBDA id : scheduleData[id].isOnCriticalPath),
        scheduleData)

(***************************************************************************)
(* calculateCriticalPath(todos), called at time baseTime.                  *)
(***************************************************************************)
calculateCriticalPath(todoList, baseTime) ==
    IF Len(todoList) = 0
    THEN [isValid |-> TRUE, criticalPath |-> <<>>, scheduleData |-> <<>>]
    ELSE LET cycleCheck == detectCycles(buildAdjacencyList(todoList))
             topologicalOrder == topologicalSort(todoList)
             forward == calculateForwardPass(todoList, topologicalOrder.order, baseTime)
             scheduleData ==
                 calculateBackwardPass(todoList, forward, topologicalOrder.order)
         IN IF ~cycleCheck.isValid THEN cycleCheck
            ELSE IF topologicalOrder.isNull THEN [isValid |-> FALSE]
            ELSE IF forwardPassThrows(todoList) THEN [threw |-> "TypeError"]
            ELSE [isValid |-> TRUE,
                  criticalPath |-> identifyCriticalPath(scheduleData),
                  scheduleData |-> scheduleData]

(***************************************************************************)
(* The input under construction and the last engine call.                  *)
(***************************************************************************)
NoCall == [op |-> "none"]

\* Dependency lists over the ids refs: no id twice (the store's unique
\* constraint on an edge).
DepLists(refs) ==
    {s \in UNION {[1..n -> refs] : n \in 0..MaxEdges} :
        \A i, j \in 1..Len(s) : i # j => s[i] # s[j]}

DepListsOverTasks == DepLists(TaskIds)

DepListsOverRefs == DepLists(RefIds)

RECURSIVE EdgeCount(_)
EdgeCount(todoList) ==
    IF todoList = <<>> THEN 0
    ELSE Len(Head(todoList).dependencies) + EdgeCount(Tail(todoList))

NoCalls == [c \in 1..MaxCalls |-> [pc |-> "idle"]]

\* cache.result is null.
NullResult == [isNull |-> TRUE]

\* The cache as constructed and as invalidateCache leaves it.
EmptyCache == [result |-> NullResult, timestamp |-> 0, snapshot |-> 0]

\* private minInterval = 1000
minInterval == 1000

\* The delays a timer can have left; time passes in halves of minInterval.
Delays == {0, minInterval \div 2, minInterval}

NoTimers == [d \in Delays |-> 0]

\* The todos the client starts from, none completed.
UiIds == {1, 2}

initialTodos == [id \in UiIds |-> FALSE]

\* The queue as constructed (lastRun = 0, long before now) and the hook as
\* first rendered.
InitClient ==
    /\ taskQueue = <<>>
    /\ processing = FALSE
    /\ timeSinceLastRun = minInterval
    /\ timers = NoTimers
    /\ running = {}
    /\ enqueued = 0
    /\ started = <<>>
    /\ timeSinceLastEnd = minInterval
    /\ optimisticTodos = initialTodos
    /\ pendingActions = {}
    /\ awaiting = <<>>
    /\ overwritten = FALSE

Init ==
    /\ todos = <<>>
    /\ last = NoCall
    /\ storeDeps = <<>>
    /\ storeSchedule = <<>>
    /\ calls = NoCalls
    /\ storeTodos = <<>>
    /\ cache = EmptyCache
    /\ clock = 0
    /\ written = [committed |-> 0, completed |-> 0]
    /\ InitClient

\* createMockTodo(id, title, dependencies, estimatedDays) appended to the list.
\* The store never holds a todo that depends on itself; an id that no todo
\* has (MissingIds) may be referenced.
CreateMockTodo(id, deps, days) ==
    /\ last = NoCall
    /\ id \notin IdsOf(todos)
    /\ id \notin Range(deps)
    /\ todos' = Append(todos, [id |-> id, estimatedDays |-> days, dependencies |-> deps])
    /\ UNCHANGED <<last, serviceVars>>

ValidateDependency(fromTodoId, toTodoId) ==
    /\ last = NoCall
    /\ last' = [op |-> "validateDependency", fromTodoId |-> fromTodoId,
                toTodoId |-> toTodoId,
                result |-> validateDependency(todos, fromTodoId, toTodoId)]
    /\ UNCHANGED <<todos, serviceVars>>

CalculateCriticalPath(baseTime) ==
    /\ last = NoCall
    /\ last' = [op |-> "calculateCriticalPath", baseTime |-> baseTime,
                result |-> calculateCriticalPath(todos, baseTime)]
    /\ UNCHANGED <<todos, serviceVars>>

\* A second DependencyGraphService.calculateCriticalPath call, on input, at a
\* time not before the first call's.
CalculateCriticalPathAgain(input, baseTime) ==
    /\ last.op = "calculateCriticalPath"
    /\ "second" \notin DOMAIN last
    /\ baseTime >= last.baseTime
    /\ last' = [op |-> "calculateCriticalPath", baseTime |-> last.baseTime,
                result |-> last.result,
                second |-> [todos |-> input, baseTime |-> baseTime,
                            result |-> calculateCriticalPath(input, baseTime)]]
    /\ UNCHANGED <<todos, serviceVars>>

\* The dependency lists a new todo with this id can be given.
DepListsFor(id, lists) ==
    {deps \in lists : id \notin Range(deps)
                       /\ EdgeCount(todos) + Len(deps) <= MaxEdges}

\* The scheduling engine on todos of every duration whose dependencies all
\* reference todos of the list.
Next ==
    \/ /\ last = NoCall
       /\ \E id \in TaskIds \ IdsOf(todos) :
              \E deps \in DepListsFor(id, DepListsOverTasks), days \in 0..MaxDays :
                  CreateMockTodo(id, deps, days)
    \/ /\ last = NoCall
       /\ \E baseTime \in NowValues : CalculateCriticalPath(baseTime)
    \/ /\ last # NoCall
       /\ \E baseTime \in NowValues : CalculateCriticalPathAgain(todos, baseTime)

Spec == Init /\ [][Next]_vars

\* The cycle checks, which read no duration, on todos that may reference an
\* id no todo has: every todo has the default estimatedDays of createMockTodo.
DefaultDays == 1

NextValidate ==
    \/ /\ last = NoCall
       /\ \E id \in TaskIds \ IdsOf(todos) :
              \E deps \in DepListsFor(id, DepListsOverRefs) :
                  CreateMockTodo(id, deps, DefaultDays)
    \/ /\ last = NoCall
       /\ \E f \in RefIds, t \in RefIds : ValidateDependency(f, t)
    \/ /\ last = NoCall
       /\ \E baseTime \in NowValues : CalculateCriticalPath(baseTime)

SpecValidate == Init /\ [][NextValidate]_vars

\* The engine called again on the same todos in another order: two
\* neighbouring todos of the list, or two neighbouring entries of one
\* dependency list, exchanged.  Every order of the list is itself a list the
\* first call is made on, so chains of such exchanges cover every permutation.
SwapAt(s, i) ==
    [k \in 1..Len(s) |-> IF k = i THEN s[i + 1] ELSE IF k = i + 1 THEN s[i] ELSE s[k]]

Exchanged(todoList) ==
    {SwapAt(todoList, i) : i \in 1..(Len(todoList) - 1)}
        \cup UNION {{[todoList EXCEPT ![k].dependencies = SwapAt(@, j)] :
                        j \in 1..(Len(todoList[k].dependencies) - 1)} :
                    k \in 1..Len(todoList)}

NextPermuted ==
    \/ /\ last = NoCall
       /\ \E id \in TaskIds \ IdsOf(todos) :
              \E deps \in DepListsFor(id, DepListsOverTasks), days \in 0..MaxDays :
                  CreateMockTodo(id, deps, days)
    \/ /\ last = NoCall
       /\ \E baseTime \in NowValues : CalculateCriticalPath(baseTime)
    \/ /\ last # NoCall
       /\ \E input \in Exchanged(todos), baseTime \in NowValues :
              CalculateCriticalPathAgain(input, baseTime)

SpecPermuted == Init /\ [][NextPermuted]_vars

\* The cycle report on todos of four ids with few dependencies each, enough
\* for two cycles that share no todo.
CycleIds == TaskIds \cup MissingIds

ShortDepLists(id) ==
    {s \in UNION {[1..n -> CycleIds \ {id}] : n \in 0..MaxDepsEach} :
        \A i, j \in 1..Len(s) : i # j => s[i] # s[j]}

NextCycles ==
    \/ /\ last = NoCall
       /\ \E id \in CycleIds \ IdsOf(todos) :
              \E deps \in ShortDepLists(id) : CreateMockTodo(id, deps, DefaultDays)
    \/ /\ last = NoCall
       /\ \E baseTime \in NowValues : CalculateCriticalPath(baseTime)

SpecCycles == Init /\ [][NextCycles]_vars

\* The todos as read back once the dependency of todoId on dependsOnId has
\* been created: the new row is the last of the todo's dependencies.
withCreatedDependency(todoList, todoId, dependsOnId) ==
    [i \in 1..Len(todoList) |->
        IF todoList[i].id = todoId
        THEN [todoList[i] EXCEPT !.dependencies = Append(@, dependsOnId)]
        ELSE todoList[i]]

\* The recalculation that follows the validation of a dependency between two
\* todos of the list once the dependency is part of the graph.
RecalculateWithDependency(baseTime) ==
    /\ last.op = "validateDependency"
    /\ "recalculated" \notin DOMAIN last
    /\ {last.fromTodoId, last.toTodoId} \subseteq IdsOf(todos)
    /\ last' = [op |-> "validateDependency", fromTodoId |-> last.fromTodoId,
                toTodoId |-> last.toTodoId, result |-> last.result,
                recalculated |->
                    calculateCriticalPath(
                        withCreatedDependency(todos, last.fromTodoId, last.toTodoId),
                        baseTime)]
    /\ UNCHANGED <<todos, serviceVars>>

NextAgree ==
    \/ /\ last = NoCall
       /\ \E id \in TaskIds \ IdsOf(todos) :
              \E deps \in DepListsFor(id, DepListsOverRefs) :
                  CreateMockTodo(id, deps, DefaultDays)
    \/ /\ last = NoCall
       /\ \E f \in RefIds, t \in RefIds : ValidateDependency(f, t)
    \/ /\ last # NoCall
       /\ \E baseTime \in NowValues : RecalculateWithDependency(baseTime)

SpecAgree == Init /\ [][NextAgree]_vars

Has(r, field) == field \in DOMAIN r

(***************************************************************************)
(* DependencyService over the store.  Every await is a point where other   *)
(* calls run: a call is a sequence of steps, the synchronous code after a  *)
(* store operation resolves belonging to that operation's step.            *)
(***************************************************************************)
StoreIds == {1, 2, 3}

\* estimatedDays of the stored todos.
StoreDays == [id \in StoreIds |-> id]

\* prisma.todo.findMany({include: {dependencies, dependents}}) mapped to the
\* engine's input: todos by id, each with its dependency rows in creation order.
RECURSIVE dependenciesOf(_, _)
dependenciesOf(rows, id) ==
    IF rows = <<>> THEN <<>>
    ELSE IF Head(rows).todoId = id
    THEN <<Head(rows).dependsOnId>> \o dependenciesOf(Tail(rows), id)
    ELSE dependenciesOf(Tail(rows), id)

findMany(rows) ==
    LET ids == SortedKeys(StoreIds) IN
    [i \in 1..Len(ids) |->
        [id |-> ids[i], estimatedDays |-> StoreDays[ids[i]],
         dependencies |-> dependenciesOf(rows, ids[i])]]

HasRow(rows, todoId, dependsOnId) ==
    \E i \in 1..Len(rows) : rows[i] = [todoId |-> todoId, dependsOnId |-> dependsOnId]

\* The data of the updates recalculateAndUpdate builds from a valid result.
scheduleUpdates(result) ==
    [id \in DOMAIN result.scheduleData |->
        [earliestStartDate |-> result.scheduleData[id].earliestStart,
         isOnCriticalPath |-> result.scheduleData[id].isOnCriticalPath]]

Fail(c, statusCode) == [calls EXCEPT ![c].pc = "failed", ![c].statusCode = statusCode]

\* addDependency(todoId, dependsOnId) is called: the two findUnique are sent.
\* created is history: whether this call has stored its row.
AddDependencyBegin(c, todoId, dependsOnId) ==
    /\ calls[c].pc = "idle"
    /\ calls' = [calls EXCEPT ![c] =
           [pc |-> "findUnique", op |-> "addDependency", todoId |-> todoId,
            dependsOnId |-> dependsOnId, statusCode |-> 0, update |-> <<>>,
            created |-> FALSE]]
    /\ UNCHANGED <<engineVars, clientVars, cacheVars, storeDeps, storeSchedule>>

\* Both findUnique resolve; a missing todo throws 404, else findMany is sent.
FindUnique(c) ==
    /\ calls[c].pc = "findUnique"
    /\ calls' = IF calls[c].todoId \in StoreIds /\ calls[c].dependsOnId \in StoreIds
                THEN [calls EXCEPT ![c].pc = "findMany"]
                ELSE Fail(c, 404)
    /\ UNCHANGED <<engineVars, clientVars, cacheVars, storeDeps, storeSchedule>>

\* findMany resolves with the rows of this moment and validateDependency
\* runs on them: a cycle throws 400, else the create is sent.
FindManyAndValidate(c) ==
    /\ calls[c].pc = "findMany"
    /\ calls' = IF validateDependency(findMany(storeDeps), calls[c].todoId,
                                      calls[c].dependsOnId).isValid
                THEN [calls EXCEPT ![c].pc = "create"]
                ELSE Fail(c, 400)
    /\ UNCHANGED <<engineVars, clientVars, cacheVars, storeDeps, storeSchedule>>

\* todoDependency.create resolves: the unique index on (todoId, dependsOnId)
\* rejects a duplicate (P2002, rethrown as 409); else the row is stored and
\* recalculateAndUpdate is called.
CreateDependency(c) ==
    /\ calls[c].pc = "create"
    /\ IF HasRow(storeDeps, calls[c].todoId, calls[c].dependsOnId)
       THEN /\ calls' = Fail(c, 409)
            /\ UNCHANGED storeDeps
       ELSE /\ storeDeps' = Append(storeDeps, [todoId |-> calls[c].todoId,
                                               dependsOnId |-> calls[c].dependsOnId])
            /\ calls' = [calls EXCEPT ![c].pc = "recalculate", ![c].created = TRUE]
    /\ UNCHANGED <<engineVars, clientVars, cacheVars, storeSchedule>>

\* removeDependency(todoId, dependsOnId) is called: deleteMany is sent.
RemoveDependencyBegin(c, todoId, dependsOnId) ==
    /\ calls[c].pc = "idle"
    /\ calls' = [calls EXCEPT ![c] =
           [pc |-> "deleteMany", op |-> "removeDependency", todoId |-> todoId,
            dependsOnId |-> dependsOnId, statusCode |-> 0, update |-> <<>>]]
    /\ UNCHANGED <<engineVars, clientVars, cacheVars, storeDeps, storeSchedule>>

\* deleteMany resolves: no row deleted throws 404, else recalculateAndUpdate
\* is called.
DeleteMany(c) ==
    /\ calls[c].pc = "deleteMany"
    /\ IF HasRow(storeDeps, calls[c].todoId, calls[c].dependsOnId)
       THEN /\ storeDeps' = SelectSeq(storeDeps,
                   LAMBDA row : row # [todoId |-> calls[c].todoId,
                                       dependsOnId |-> calls[c].dependsOnId])
            /\ calls' = [calls EXCEPT ![c].pc = "recalculate"]
       ELSE /\ calls' = Fail(c, 404)
            /\ UNCHANGED storeDeps
    /\ UNCHANGED <<engineVars, clientVars, cacheVars, storeSchedule>>

\* recalculateAndUpdate: findMany resolves and calculateCriticalPath runs on
\* its rows; an invalid result throws, else the batch of updates is sent.
RecalculateRead(c, baseTime) ==
    /\ calls[c].pc = "recalculate"
    /\ LET result == calculateCriticalPath(findMany(storeDeps), baseTime) IN
       calls' = IF Has(result, "isValid") /\ result.isValid
                THEN [calls EXCEPT ![c].pc = "transaction",
                                   ![c].update = scheduleUpdates(result)]
                ELSE Fail(c, 500)
    /\ UNCHANGED <<engineVars, clientVars, cacheVars, storeDeps, storeSchedule>>

\* prisma.$transaction(updatePromises) commits every update at once and the
\* call returns.
RecalculateWrite(c) ==
    /\ calls[c].pc = "transaction"
    /\ storeSchedule' = calls[c].update
    /\ calls' = [calls EXCEPT ![c].pc = "done"]
    /\ UNCHANGED <<engineVars, clientVars, cacheVars, storeDeps>>

\* The stores the service starts from: few rows, no cycle, the schedule of
\* the last recalculation persisted.
StoreRows ==
    {[todoId |-> a, dependsOnId |-> b] : a \in StoreIds, b \in StoreIds} \
        {[todoId |-> a, dependsOnId |-> a] : a \in StoreIds}

InitialStores ==
    {rows \in UNION {[1..n -> StoreRows] : n \in 0..MaxInitEdges} :
        /\ \A i, j \in 1..Len(rows) : i # j => rows[i] # rows[j]
        /\ detectCycles(buildAdjacencyList(findMany(rows))).isValid}

InitService ==
    /\ todos = <<>>
    /\ last = NoCall
    /\ storeDeps \in InitialStores
    /\ storeSchedule = scheduleUpdates(calculateCriticalPath(findMany(storeDeps), 0))
    /\ calls = NoCalls
    /\ storeTodos = StoreDays
    /\ cache = EmptyCache
    /\ clock = 0
    /\ written = [committed |-> 0, completed |-> 0]
    /\ InitClient

NextService ==
    \E c \in 1..MaxCalls :
        \/ \E todoId \in StoreIds, dependsOnId \in StoreIds :
               AddDependencyBegin(c, todoId, dependsOnId)
        \/ FindUnique(c)
        \/ FindManyAndValidate(c)
        \/ CreateDependency(c)
        \/ \E todoId \in StoreIds, dependsOnId \in StoreIds :
               RemoveDependencyBegin(c, todoId, dependsOnId)
        \/ DeleteMany(c)
        \/ \E baseTime \in NowValues : RecalculateRead(c, baseTime)
        \/ RecalculateWrite(c)

SpecService == InitService /\ [][NextService]_vars

(***************************************************************************)
(* CriticalPathService with its read-through cache, and TodoService, over  *)
(* the store.  written is history: it numbers the committed writes of the  *)
(* graph, so that a result can be compared with the writes whose calls     *)
(* had returned when the read was called.                                  *)
(***************************************************************************)
\* prisma.todo.findMany over the todos of the store, mapped to the engine's
\* input.
findManyIn(todosOfStore, rows) ==
    LET ids == SortedKeys(DOMAIN todosOfStore) IN
    [i \in 1..Len(ids) |->
        [id |-> ids[i], estimatedDays |-> todosOfStore[ids[i]],
         dependencies |-> dependenciesOf(rows, ids[i])]]

\* The object getCriticalPath builds; a null projectEndDate is the empty
\* sequence, a date the sequence of its time.
criticalPathResult(result, totalTasks) ==
    LET criticalPath == IF Has(result, "criticalPath") THEN result.criticalPath ELSE <<>>
        scheduleData == IF Has(result, "scheduleData") THEN result.scheduleData ELSE <<>>
    IN [criticalPath |-> criticalPath,
        scheduleData |-> scheduleData,
        isValid |-> result.isValid,
        error |-> IF Has(result, "circularDependency")
                  THEN result.circularDependency.message ELSE "undefined",
        totalTasks |-> totalTasks,
        criticalTaskCount |-> Len(criticalPath),
        projectEndDate |->
            IF Has(result, "scheduleData") /\ Has(result, "criticalPath")
               /\ Len(result.criticalPath) > 0
            THEN <<result.scheduleData[result.criticalPath[Len(result.criticalPath)]]
                       .earliestFinish>>
            ELSE <<>>]

\* A slot for a new call.
Free(c) == calls[c].pc \in {"idle", "done", "failed"}

\* The updates of a batch applied to the persisted schedule.
applyUpdates(schedule, update) ==
    [id \in DOMAIN schedule \cup DOMAIN update |->
        IF id \in DOMAIN update THEN update[id] ELSE schedule[id]]

\* this.cache.result && (now - this.cache.timestamp) < this.CACHE_TTL
cacheIsFresh(now) ==
    cache.result # NullResult /\ now - cache.timestamp < CACHE_TTL

\* getCriticalPath is called: a fresh cached result is returned at once, else
\* findMany is sent.
GetCriticalPathBegin(c) ==
    /\ Free(c)
    /\ calls' = [calls EXCEPT ![c] =
           IF cacheIsFresh(clock)
           THEN [op |-> "getCriticalPath", pc |-> "done",
                 floor |-> written.completed,
                 result |-> cache.result, snapshot |-> cache.snapshot]
           ELSE [op |-> "getCriticalPath", pc |-> "findMany", now |-> clock,
                 floor |-> written.completed]]
    /\ UNCHANGED <<engineVars, clientVars, storeDeps, storeSchedule, cacheVars>>

\* The store answers findMany with the todos of this moment.
GetCriticalPathFindMany(c) ==
    /\ calls[c].pc = "findMany" /\ calls[c].op = "getCriticalPath"
    /\ calls' = [calls EXCEPT ![c] =
           [op |-> "getCriticalPath", pc |-> "calculate", now |-> calls[c].now,
            floor |-> calls[c].floor,
            todos |-> findManyIn(storeTodos, storeDeps),
            snapshot |-> written.committed]]
    /\ UNCHANGED <<engineVars, clientVars, storeDeps, storeSchedule, cacheVars>>

\* The call resumes: the engine runs on the todos read, the result is cached
\* under the time the call began at, and returned.
GetCriticalPathReturn(c) ==
    /\ calls[c].pc = "calculate" /\ calls[c].op = "getCriticalPath"
    /\ LET result == criticalPathResult(calculateCriticalPath(calls[c].todos, clock),
                                        Len(calls[c].todos))
       IN /\ cache' = [result |-> result, timestamp |-> calls[c].now,
                       snapshot |-> calls[c].snapshot]
          /\ calls' = [calls EXCEPT ![c] =
                 [op |-> "getCriticalPath", pc |-> "done",
                  floor |-> calls[c].floor,
                  result |-> result, snapshot |-> calls[c].snapshot]]
    /\ UNCHANGED <<engineVars, clientVars, storeDeps, storeSchedule, storeTodos, clock, written>>

\* The dependency arrays a new todo can be given: ids of todos of the store.
NewTodoDependencies ==
    {s \in UNION {[1..n -> DOMAIN storeTodos] : n \in 0..MaxDepsEach} :
        \A i, j \in 1..Len(s) : i # j => s[i] # s[j]}

\* TodoService.createTodo: the transaction that creates the todo and its
\* dependency rows commits; recalculateCriticalPath sends its findMany.
CreateTodoTransaction(c, estimatedDays, dependencies) ==
    /\ Free(c)
    /\ Cardinality(DOMAIN storeTodos) < MaxStoreTodos
    /\ LET id == Cardinality(DOMAIN storeTodos) + 1 IN
       /\ storeTodos' = [i \in DOMAIN storeTodos \cup {id} |->
                            IF i = id THEN estimatedDays ELSE storeTodos[i]]
       /\ storeDeps' = storeDeps \o
              [k \in 1..Len(dependencies) |->
                  [todoId |-> id, dependsOnId |-> dependencies[k]]]
    /\ written' = [written EXCEPT !.committed = @ + 1]
    /\ calls' = [calls EXCEPT ![c] =
           [op |-> "createTodo", pc |-> "recalculate",
            wrote |-> written.committed + 1, update |-> <<>>]]
    /\ UNCHANGED <<engineVars, clientVars, storeSchedule, cache, clock>>

\* recalculateCriticalPath of TodoService: findMany resolves, the engine runs,
\* and for a valid result the batch of updates is sent.
CreateTodoRecalculateRead(c) ==
    /\ calls[c].pc = "recalculate" /\ calls[c].op = "createTodo"
    /\ LET result == calculateCriticalPath(findManyIn(storeTodos, storeDeps), clock) IN
       calls' = IF result.isValid /\ Has(result, "scheduleData")
                THEN [calls EXCEPT ![c].pc = "transaction",
                                   ![c].update = scheduleUpdates(result)]
                ELSE [calls EXCEPT ![c].pc = "getAllTodos"]
    /\ UNCHANGED <<engineVars, clientVars, storeDeps, storeSchedule, cacheVars>>

\* The batch of updates commits; getAllTodos is sent.
CreateTodoRecalculateWrite(c) ==
    /\ calls[c].pc = "transaction" /\ calls[c].op = "createTodo"
    /\ storeSchedule' = applyUpdates(storeSchedule, calls[c].update)
    /\ calls' = [calls EXCEPT ![c].pc = "getAllTodos"]
    /\ UNCHANGED <<engineVars, clientVars, storeDeps, cacheVars>>

\* getAllTodos resolves and createTodo returns.
CreateTodoReturn(c) ==
    /\ calls[c].pc = "getAllTodos"
    /\ calls' = [calls EXCEPT ![c] = [op |-> "createTodo", pc |-> "done"]]
    /\ written' = [written EXCEPT
                      !.completed = IF calls[c].wrote > @ THEN calls[c].wrote ELSE @]
    /\ UNCHANGED <<engineVars, clientVars, storeDeps, storeSchedule, storeTodos, cache, clock>>

\* recalculateAndUpdate of the caching CriticalPathService is called: the
\* cache is invalidated and findMany is sent.
RecalculateAndUpdateBegin(c) ==
    /\ Free(c)
    /\ cache' = EmptyCache
    /\ calls' = [calls EXCEPT ![c] =
           [op |-> "recalculateAndUpdate", pc |-> "recalculate", update |-> <<>>]]
    /\ UNCHANGED <<engineVars, clientVars, storeDeps, storeSchedule, storeTodos, clock, written>>

\* findMany resolves and the engine runs: an invalid result throws, else the
\* batch of updates is sent.
RecalculateAndUpdateRead(c) ==
    /\ calls[c].pc = "recalculate" /\ calls[c].op = "recalculateAndUpdate"
    /\ LET result == calculateCriticalPath(findManyIn(storeTodos, storeDeps), clock) IN
       calls' = IF result.isValid
                THEN [calls EXCEPT ![c].pc = "transaction",
                                   ![c].update = scheduleUpdates(result)]
                ELSE [calls EXCEPT ![c] = [op |-> "recalculateAndUpdate", pc |-> "failed"]]
    /\ UNCHANGED <<engineVars, clientVars, storeDeps, storeSchedule, cacheVars>>

\* The batch of updates commits and the call returns.
RecalculateAndUpdateWrite(c) ==
    /\ calls[c].pc = "transaction" /\ calls[c].op = "recalculateAndUpdate"
    /\ storeSchedule' = applyUpdates(storeSchedule, calls[c].update)
    /\ calls' = [calls EXCEPT ![c] = [op |-> "recalculateAndUpdate", pc |-> "done"]]
    /\ UNCHANGED <<engineVars, clientVars, storeDeps, cacheVars>>

\* Time passes, half a CACHE_TTL at a step.
Tick ==
    /\ clock < MaxTicks * (CACHE_TTL \div 2)
    /\ clock' = clock + CACHE_TTL \div 2
    /\ UNCHANGED <<engineVars, clientVars, storeDeps, storeSchedule, calls, storeTodos, cache, written>>

NextCache ==
    \/ \E c \in 1..MaxCalls :
        \/ GetCriticalPathBegin(c)
        \/ GetCriticalPathFindMany(c)
        \/ GetCriticalPathReturn(c)
        \/ \E estimatedDays \in 1..MaxDays, dependencies \in NewTodoDependencies :
               CreateTodoTransaction(c, estimatedDays, dependencies)
        \/ CreateTodoRecalculateRead(c)
        \/ CreateTodoRecalculateWrite(c)
        \/ CreateTodoReturn(c)
        \/ RecalculateAndUpdateBegin(c)
        \/ RecalculateAndUpdateRead(c)
        \/ RecalculateAndUpdateWrite(c)
    \/ Tick

SpecCache == Init /\ [][NextCache]_vars

(***************************************************************************)
(* The dependency graph of the input, read off the todos without the       *)
(* engine: a depends on b when b is in the dependencies of todo a.         *)
(***************************************************************************)
Edge(todoList, a, b) ==
    \E i \in 1..Len(todoList) : todoList[i].id = a /\ DependsOn(todoList[i], b)

EdgeTargets(todoList, S) ==
    UNION {Range(todoList[i].dependencies) :
               i \in {j \in 1..Len(todoList) : todoList[j].id \in S}}

RECURSIVE ReachWithin(_, _, _)
ReachWithin(todoList, S, n) ==
    IF n = 0 \/ S = {} THEN {}
    ELSE LET T == EdgeTargets(todoList, S) IN T \cup ReachWithin(todoList, T, n - 1)

\* a depends on b, directly or transitively (a path of at least one edge).
\* Every node of a path but the last is a todo of the list, so Len(todoList)
\* edges suffice.
Reaches(todoList, a, b) == b \in ReachWithin(todoList, {a}, Len(todoList))

OnCycle(todoList, a) == Reaches(todoList, a, a)

HasCycle(todoList) == \E a \in IdsOf(todoList) : OnCycle(todoList, a)

NoDanglingReference(todoList) ==
    \A a \in IdsOf(todoList), b \in RefIds : Edge(todoList, a, b) => b \in IdsOf(todoList)

Calculated == last.op = "calculateCriticalPath"

Validated == last.op = "validateDependency"

ResultValid == Calculated /\ Has(last.result, "isValid") /\ last.result.isValid

DurationOf(id) == todoMapGet(todos, id).estimatedDays * DAY_MS

DepsOf(id) == {b \in RefIds : Edge(todos, id, b)}

SuccessorsOf(id) == {a \in IdsOf(todos) : Edge(todos, a, id)}

(***************************************************************************)
(* C1.  As stated: every calculateCriticalPath call on an acyclic          *)
(* dependency graph returns isValid = true.                                *)
(***************************************************************************)
C1_AcyclicIsValid_AsStated ==
    (Calculated /\ ~HasCycle(todos)) => ResultValid

\* C1, amended: every calculateCriticalPath call on an acyclic dependency
\* graph all of whose dependencies reference todos of the list returns
\* isValid = true.
C1_AcyclicIsValid ==
    (Calculated /\ ~HasCycle(todos) /\ NoDanglingReference(todos)) => ResultValid

C1_Witness ==
    /\ ResultValid
    /\ Len(todos) = 3
    /\ \E a, b, c \in IdsOf(todos) :
           /\ Edge(todos, a, b) /\ Edge(todos, b, c) /\ Edge(todos, a, c)

(***************************************************************************)
(* C2.  Every calculateCriticalPath call on a graph that contains a cycle  *)
(* returns isValid = false with a circularDependency.cycle whose ids all   *)
(* lie on a cycle of the input graph; it does not throw and returns no     *)
(* schedule.                                                               *)
(***************************************************************************)
C2_CycleIsReported ==
    (Calculated /\ HasCycle(todos)) =>
        /\ ~Has(last.result, "threw")
        /\ Has(last.result, "isValid") /\ ~last.result.isValid
        /\ ~Has(last.result, "scheduleData")
        /\ ~Has(last.result, "criticalPath")
        /\ Has(last.result, "circularDependency")
        /\ Len(last.result.circularDependency.cycle) > 0
        /\ \A id \in Range(last.result.circularDependency.cycle) : OnCycle(todos, id)

C2_Witness ==
    /\ Calculated
    /\ HasCycle(todos)
    /\ Has(last.result, "circularDependency")
    /\ Cardinality(Range(last.result.circularDependency.cycle)) = 3

(***************************************************************************)
(* C3.  On an acyclic graph and distinct ids, validateDependency(todos,    *)
(* fromId, toId) returns isValid = false exactly when toId already depends *)
(* on fromId, directly or transitively; otherwise isValid = true and no    *)
(* cycle.                                                                  *)
(***************************************************************************)
C3_ValidateIffNoPathBack ==
    (Validated /\ ~HasCycle(todos) /\ last.fromTodoId # last.toTodoId) =>
        /\ last.result.isValid = ~Reaches(todos, last.toTodoId, last.fromTodoId)
        /\ last.result.isValid => ~Has(last.result, "cycle")

C3_Witness ==
    /\ Validated
    /\ ~HasCycle(todos)
    /\ ~last.result.isValid
    /\ ~Edge(todos, last.toTodoId, last.fromTodoId)
    /\ Reaches(todos, last.toTodoId, last.fromTodoId)

(***************************************************************************)
(* C4.  Every cycle list the detector returns, from calculateCriticalPath  *)
(* or from validateDependency with distinct ids, is a closed walk: first   *)
(* and last element are equal and each consecutive pair (a, b) is an edge  *)
(* "a depends on b" of the adjacency, the proposed edge included.          *)
(***************************************************************************)
ClosedWalk(cycle, IsEdge(_, _)) ==
    /\ Len(cycle) >= 2
    /\ cycle[1] = cycle[Len(cycle)]
    /\ \A i \in 1..(Len(cycle) - 1) : IsEdge(cycle[i], cycle[i + 1])

C4_CycleIsClosedWalk ==
    /\ (Calculated /\ Has(last.result, "circularDependency")) =>
           ClosedWalk(last.result.circularDependency.cycle,
                      LAMBDA a, b : Edge(todos, a, b))
    /\ (Validated /\ last.fromTodoId # last.toTodoId /\ Has(last.result, "cycle")) =>
           ClosedWalk(last.result.cycle,
                      LAMBDA a, b : \/ Edge(todos, a, b)
                                    \/ (a = last.fromTodoId /\ b = last.toTodoId))

\* A cycle found from a DFS root that is not the first key, through the
\* proposed edge.
C4_Witness ==
    /\ Validated
    /\ Has(last.result, "cycle")
    /\ Len(last.result.cycle) = 4
    /\ last.result.cycle[1] # MinOf(IdsOf(todos))
    /\ ~HasCycle(todos)

(***************************************************************************)
(* C5.  validateDependency(todos, X, X) returns isValid = false with cycle *)
(* exactly [X], for every X, also one that is not among the todos.         *)
(***************************************************************************)
C5_SelfDependency ==
    (Validated /\ last.fromTodoId = last.toTodoId) =>
        last.result = [isValid |-> FALSE, cycle |-> <<last.fromTodoId>>]

C5_Witness ==
    /\ Validated
    /\ last.fromTodoId = last.toTodoId
    /\ last.fromTodoId \notin IdsOf(todos)
    /\ Len(todos) > 0
    /\ last.result.cycle = <<last.fromTodoId>>

(***************************************************************************)
(* C6.  Starting from an acyclic store, in every state reachable by any    *)
(* interleaving of addDependency and removeDependency calls the persisted  *)
(* dependency graph is acyclic.                                            *)
(***************************************************************************)
C6_StoreStaysAcyclic == ~HasCycle(findMany(storeDeps))

(***************************************************************************)
(* C7.  In every valid result, for every task T: earliestStart(T) is the   *)
(* maximum earliestFinish over T's dependencies (the call's base time if   *)
(* T has none), so earliestStart(T) >= earliestFinish(D) for every         *)
(* dependency D, and earliestFinish(T) = earliestStart(T) + duration(T).   *)
(***************************************************************************)
C7_ForwardRecurrence ==
    ResultValid =>
        LET sd == last.result.scheduleData IN
        \A t \in IdsOf(todos) :
            /\ sd[t].earliestStart =
                   IF DepsOf(t) = {} THEN last.baseTime
                   ELSE MaxOf({sd[d].earliestFinish : d \in DepsOf(t)})
            /\ \A d \in DepsOf(t) : sd[t].earliestStart >= sd[d].earliestFinish
            /\ sd[t].earliestFinish = sd[t].earliestStart + DurationOf(t)

\* A task with two dependencies that finish at different times.
C7_Witness ==
    /\ ResultValid
    /\ last.baseTime > 0
    /\ \E t \in IdsOf(todos) : \E d1, d2 \in DepsOf(t) :
           last.result.scheduleData[d1].earliestFinish
               < last.result.scheduleData[d2].earliestFinish

(***************************************************************************)
(* C8.  In every valid result, for every task T: latestFinish(T) <=        *)
(* latestStart(S) for every task S that depends on T, and if no task       *)
(* depends on T then latestFinish(T) = projectEnd, the maximum             *)
(* earliestFinish of all tasks.                                            *)
(***************************************************************************)
ProjectEnd ==
    MaxOf({last.result.scheduleData[id].earliestFinish : id \in IdsOf(todos)})

C8_LatestFinishBound ==
    ResultValid =>
        LET sd == last.result.scheduleData
            projectEnd == ProjectEnd
        IN
        \A t \in IdsOf(todos) :
            /\ \A s \in SuccessorsOf(t) : sd[t].latestFinish <= sd[s].latestStart
            /\ SuccessorsOf(t) = {} => sd[t].latestFinish = projectEnd

Independent(t) == DepsOf(t) = {} /\ SuccessorsOf(t) = {}

\* The regime of connected tasks with an independent one beside them, one
\* connected task ending before its successor must start.
C8_Witness ==
    /\ ResultValid
    /\ \E t, s, u \in IdsOf(todos) :
           /\ s \in SuccessorsOf(t)
           /\ Independent(u)
           /\ DurationOf(t) > 0 /\ DurationOf(s) > 0
           /\ last.result.scheduleData[u].earliestFinish < ProjectEnd
           /\ last.result.scheduleData[t].latestFinish
                  = last.result.scheduleData[s].latestStart

(***************************************************************************)
(* C9.  For every valid result on non-negative durations, every task's     *)
(* slack is >= -tolerance.                                                 *)
(***************************************************************************)
C9_SlackNonNegative ==
    (ResultValid /\ \A t \in IdsOf(todos) : DurationOf(t) >= 0) =>
        \A t \in IdsOf(todos) : last.result.scheduleData[t].slack >= -TOLERANCE_MS

\* Positive slack on a connected task and on an independent one.
C9_Witness ==
    /\ ResultValid
    /\ \E t, u \in IdsOf(todos) :
           /\ ~Independent(t) /\ last.result.scheduleData[t].slack > 0
           /\ Independent(u) /\ last.result.scheduleData[u].slack = 0

(***************************************************************************)
(* C10.  In every valid result the criticalPath holds exactly the tasks    *)
(* whose slack is within tolerance of zero.                                *)
(***************************************************************************)
C10_CriticalIffZeroSlack ==
    ResultValid =>
        Range(last.result.criticalPath) =
            {t \in IdsOf(todos) : Abs(last.result.scheduleData[t].slack) < TOLERANCE_MS}

\* Critical and non-critical tasks, connected and independent, in one result.
C10_Witness ==
    /\ ResultValid
    /\ \E t, u \in IdsOf(todos) :
           /\ ~Independent(t) /\ t \in Range(last.result.criticalPath)
           /\ Independent(u) /\ u \notin Range(last.result.criticalPath)
           /\ last.result.scheduleData[u].slack >= TOLERANCE_MS

(***************************************************************************)
(* C11.  As stated: two calculateCriticalPath calls on the same unmodified *)
(* input return identical scheduleData and identical criticalPath,         *)
(* whenever each call runs.                                                *)
(***************************************************************************)
CalculatedTwice == Calculated /\ Has(last, "second") /\ last.second.todos = todos

BothValid ==
    /\ ResultValid
    /\ Has(last.second.result, "isValid") /\ last.second.result.isValid

C11_Deterministic_AsStated ==
    (CalculatedTwice /\ BothValid) =>
        /\ last.second.result.scheduleData = last.result.scheduleData
        /\ last.second.result.criticalPath = last.result.criticalPath

\* The entry of a schedule with its four times moved by shift.
Shifted(entry, shift) ==
    [entry EXCEPT !.earliestStart = @ + shift, !.earliestFinish = @ + shift,
                  !.latestStart = @ + shift, !.latestFinish = @ + shift]

\* C11, amended: two calculateCriticalPath calls on the same unmodified input
\* return the same isValid, and when valid the same criticalPath and, for
\* every task, the same slack and isOnCriticalPath and the same four times
\* relative to the time of the call: each time of the second result is the
\* time of the first moved by the difference of the two call times.
C11_DeterministicUpToEpoch ==
    CalculatedTwice =>
        IF BothValid
        THEN /\ last.second.result.criticalPath = last.result.criticalPath
             /\ DOMAIN last.second.result.scheduleData = DOMAIN last.result.scheduleData
             /\ \A id \in DOMAIN last.result.scheduleData :
                    last.second.result.scheduleData[id] =
                        Shifted(last.result.scheduleData[id],
                                last.second.baseTime - last.baseTime)
        ELSE last.second.result = last.result

C11_Witness ==
    /\ CalculatedTwice /\ BothValid
    /\ last.second.baseTime > last.baseTime
    /\ \E t, u \in IdsOf(todos) :
           /\ t \in Range(last.result.criticalPath)
           /\ last.result.scheduleData[u].slack > 0

(***************************************************************************)
(* C12.  calculateCriticalPath is all-or-nothing: a valid result has a     *)
(* criticalPath and a scheduleData with exactly one entry per input task   *)
(* id, each fully computed (finish = start + duration for the earliest and *)
(* the latest times, slack = latestStart - earliestStart); an invalid      *)
(* result has neither scheduleData nor criticalPath.                       *)
(***************************************************************************)
FullyComputed(entry, id, baseTime) ==
    /\ DOMAIN entry = {"earliestStart", "earliestFinish", "latestStart",
                       "latestFinish", "slack", "isOnCriticalPath"}
    /\ entry.earliestStart >= baseTime
    /\ entry.earliestFinish = entry.earliestStart + DurationOf(id)
    /\ entry.latestFinish = entry.latestStart + DurationOf(id)
    /\ entry.slack = entry.latestStart - entry.earliestStart
    /\ entry.isOnCriticalPath \in BOOLEAN

C12_AllOrNothing ==
    Calculated =>
        /\ Has(last.result, "isValid")
        /\ IF last.result.isValid
           THEN /\ Has(last.result, "criticalPath")
                /\ DOMAIN last.result.scheduleData = IdsOf(todos)
                /\ \A id \in IdsOf(todos) :
                       FullyComputed(last.result.scheduleData[id], id, last.baseTime)
           ELSE /\ ~Has(last.result, "scheduleData")
                /\ ~Has(last.result, "criticalPath")

C12_Witness ==
    /\ ResultValid
    /\ last.baseTime > 0
    /\ \E t, u \in IdsOf(todos) :
           /\ DepsOf(t) # {} /\ DurationOf(t) > 0
           /\ DepsOf(u) = {} /\ SuccessorsOf(u) = {} /\ DurationOf(u) > 0
           /\ last.result.scheduleData[u].slack > 0

(***************************************************************************)
(* C13.  Every isValid = false result of calculateCriticalPath carries a   *)
(* circularDependency payload, a cycle list and a message, also on an      *)
(* input with a dependency on an id that no task of the list has.          *)
(***************************************************************************)
C13_InvalidCarriesCycle ==
    (Calculated /\ ~ResultValid) =>
        /\ Has(last.result, "circularDependency")
        /\ Len(last.result.circularDependency.cycle) > 0
        /\ last.result.circularDependency.message
               = cycleMessage(last.result.circularDependency.cycle)

(***************************************************************************)
(* C14.  As stated: the cycle detector tries DFS roots in the input order  *)
(* of the task list, so the cycle reported lies among the todos reachable  *)
(* from the first todo, in input order, from which a cycle can be reached. *)
(***************************************************************************)
ReachedFrom(todoList, r) ==
    {r} \cup (ReachWithin(todoList, {r}, Len(todoList)) \cap IdsOf(todoList))

CyclicIds(todoList) == {c \in IdsOf(todoList) : OnCycle(todoList, c)}

\* The todos from which a cycle can be reached.
CycleRoots(todoList) ==
    LET cyclic == CyclicIds(todoList)
    IN {r \in IdsOf(todoList) : ReachedFrom(todoList, r) \cap cyclic # {}}

CycleReported == Calculated /\ Has(last.result, "circularDependency")

ReportedCycle == Range(last.result.circularDependency.cycle)

FirstInInputOrder ==
    LET roots == CycleRoots(todos)
        i == CHOOSE i \in 1..Len(todos) :
                 /\ todos[i].id \in roots
                 /\ \A j \in 1..(i - 1) : todos[j].id \notin roots
    IN todos[i].id

FirstInIdOrder == MinOf(CycleRoots(todos))

C14_RootsInInputOrder_AsStated ==
    CycleReported => ReportedCycle \subseteq ReachedFrom(todos, FirstInInputOrder)

\* C14, amended: the cycle detector tries DFS roots in ascending order of the
\* task ids, whatever the input order, so the cycle reported lies among the
\* todos reachable from the smallest id from which a cycle can be reached.
C14_RootsInIdOrder ==
    CycleReported => ReportedCycle \subseteq ReachedFrom(todos, FirstInIdOrder)

\* Two cycles that share no todo, the one of the larger ids first in the list.
C14_Witness ==
    /\ CycleReported
    /\ Len(todos) = 4
    /\ \A a \in IdsOf(todos) : OnCycle(todos, a)
    /\ \E a \in IdsOf(todos) : ~Reaches(todos, todos[1].id, a)
    /\ todos[1].id # FirstInIdOrder
    /\ todos[1].id \notin ReportedCycle

(***************************************************************************)
(* C15.  Permuting the order of the tasks in the input list, and of each   *)
(* task's dependency list, changes neither isValid nor the set of task ids *)
(* marked critical.                                                        *)
(***************************************************************************)
SameTodos(a, b) ==
    /\ IdsOf(a) = IdsOf(b) /\ Len(a) = Len(b)
    /\ \A id \in IdsOf(a) :
           /\ todoMapGet(a, id).estimatedDays = todoMapGet(b, id).estimatedDays
           /\ Range(todoMapGet(a, id).dependencies) = Range(todoMapGet(b, id).dependencies)
           /\ Len(todoMapGet(a, id).dependencies) = Len(todoMapGet(b, id).dependencies)

CalculatedPermuted ==
    /\ Calculated /\ Has(last, "second")
    /\ SameTodos(last.second.todos, todos)

CriticalIds(result) ==
    {id \in DOMAIN result.scheduleData : result.scheduleData[id].isOnCriticalPath}

C15_PermutationInvariant ==
    CalculatedPermuted =>
        /\ Has(last.result, "isValid") /\ Has(last.second.result, "isValid")
        /\ last.second.result.isValid = last.result.isValid
        /\ last.result.isValid =>
               /\ CriticalIds(last.second.result) = CriticalIds(last.result)
               /\ Range(last.second.result.criticalPath) = Range(last.result.criticalPath)

C15_Witness ==
    /\ CalculatedPermuted /\ BothValid
    /\ last.second.todos # todos
    /\ \E t \in IdsOf(todos) :
           /\ Len(todoMapGet(todos, t).dependencies) = 2
           /\ todoMapGet(last.second.todos, t).dependencies
                  # todoMapGet(todos, t).dependencies
           /\ \E d \in DepsOf(t) : d \notin CriticalIds(last.result)
           /\ \E d \in DepsOf(t) : d \in CriticalIds(last.result)

(***************************************************************************)
(* C16.  When no task of the input has any dependency, exactly the tasks   *)
(* whose duration equals the maximum duration are critical, with slack 0,  *)
(* and every other task has slack = maxDuration - ownDuration, latestStart *)
(* = earliestStart + slack and latestFinish = earliestFinish + slack.      *)
(***************************************************************************)
NoDependencies == \A t \in IdsOf(todos) : DepsOf(t) = {}

MaxDuration == MaxOf({DurationOf(t) : t \in IdsOf(todos)})

C16_AllIndependent ==
    (ResultValid /\ NoDependencies) =>
        \A t \in IdsOf(todos) :
            LET entry == last.result.scheduleData[t] IN
            /\ entry.isOnCriticalPath <=> DurationOf(t) = MaxDuration
            /\ entry.slack = MaxDuration - DurationOf(t)
            /\ entry.latestStart = entry.earliestStart + entry.slack
            /\ entry.latestFinish = entry.earliestFinish + entry.slack

C16_Witness ==
    /\ ResultValid /\ NoDependencies
    /\ last.baseTime > 0
    /\ \E t, u, v \in IdsOf(todos) :
           /\ t # u
           /\ DurationOf(t) = MaxDuration /\ DurationOf(u) = MaxDuration
           /\ DurationOf(v) < MaxDuration /\ DurationOf(v) > 0

(***************************************************************************)
(* C17.  When at least one task has a dependency, every independent task T *)
(* (no dependencies, no dependents) is critical iff earliestFinish(T) >=   *)
(* projectEnd - tolerance; a critical one has slack 0, any other has slack *)
(* = projectEnd - earliestFinish(T); latestFinish(T) = projectEnd and      *)
(* latestStart(T) = projectEnd - duration(T) either way.                   *)
(***************************************************************************)
C17_IndependentAmongConnected ==
    (ResultValid /\ ~NoDependencies) =>
        \A t \in IdsOf(todos) :
            Independent(t) =>
                LET entry == last.result.scheduleData[t] IN
                /\ entry.isOnCriticalPath
                       <=> entry.earliestFinish >= ProjectEnd - TOLERANCE_MS
                /\ ~entry.isOnCriticalPath
                       => entry.slack = ProjectEnd - entry.earliestFinish
                /\ entry.latestFinish = ProjectEnd
                /\ entry.latestStart = ProjectEnd - DurationOf(t)

C17_Witness ==
    /\ ResultValid /\ ~NoDependencies
    /\ \E t \in IdsOf(todos) :
           /\ Independent(t)
           /\ last.result.scheduleData[t].isOnCriticalPath
           /\ \E u \in IdsOf(todos) :
                  ~Independent(u) /\ last.result.scheduleData[u].isOnCriticalPath

(***************************************************************************)
(* C18.  The returned criticalPath holds each critical task id exactly     *)
(* once and is sorted in non-decreasing order of earliestStart.            *)
(***************************************************************************)
C18_CriticalPathSorted ==
    ResultValid =>
        LET criticalPath == last.result.criticalPath IN
        /\ Range(criticalPath) = CriticalIds(last.result)
        /\ \A i, j \in 1..Len(criticalPath) :
               /\ i # j => criticalPath[i] # criticalPath[j]
               /\ i < j => last.result.scheduleData[criticalPath[i]].earliestStart
                               <= last.result.scheduleData[criticalPath[j]].earliestStart

\* A critical chain whose ids descend along the chain.
C18_Witness ==
    /\ ResultValid
    /\ Len(last.result.criticalPath) = 3
    /\ \E i \in 1..2 : last.result.criticalPath[i] > last.result.criticalPath[i + 1]
    /\ \E i \in 1..2 :
           last.result.scheduleData[last.result.criticalPath[i]].earliestStart
               < last.result.scheduleData[last.result.criticalPath[i + 1]].earliestStart

(***************************************************************************)
(* C20.  Under any interleaving of addDependency and removeDependency      *)
(* calls, each with its recalculateAndUpdate, once all calls have          *)
(* completed every task's persisted isOnCriticalPath equals the value the  *)
(* engine computes for the finally persisted graph.                        *)
(***************************************************************************)
AllCallsCompleted == \A c \in 1..MaxCalls : calls[c].pc \in {"idle", "done", "failed"}

EngineOnStore == calculateCriticalPath(findMany(storeDeps), 0)

C20_PersistedFlagsMatchGraph ==
    (AllCallsCompleted /\ EngineOnStore.isValid) =>
        \A id \in StoreIds :
            storeSchedule[id].isOnCriticalPath
                = EngineOnStore.scheduleData[id].isOnCriticalPath

(***************************************************************************)
(* C19.  The cache of CriticalPathService never masks stale data: no       *)
(* getCriticalPath call returns a result computed from a graph older than  *)
(* the latest write of the graph whose call had returned when the          *)
(* getCriticalPath call began.                                             *)
(***************************************************************************)
C19_CacheNeverStale ==
    \A c \in 1..MaxCalls :
        (calls[c].pc = "done" /\ calls[c].op = "getCriticalPath")
            => calls[c].snapshot >= calls[c].floor

(***************************************************************************)
(* C21.  In every valid result with non-negative durations a task is       *)
(* marked isOnCriticalPath if and only if it lies on a dependency chain,   *)
(* from a task with no dependencies to a task with no dependents, whose    *)
(* total duration is the project length projectEnd - epoch.                *)
(***************************************************************************)
\* The longest total duration of a chain that starts at a task with no
\* dependencies and ends with id.
RECURSIVE LongestChainTo(_)
LongestChainTo(id) ==
    DurationOf(id) + MaxOf({0} \cup {LongestChainTo(d) : d \in DepsOf(id)})

\* The longest total duration of a chain that starts with id and ends at a
\* task with no dependents.
RECURSIVE LongestChainFrom(_)
LongestChainFrom(id) ==
    DurationOf(id) + MaxOf({0} \cup {LongestChainFrom(s) : s \in SuccessorsOf(id)})

LongestChainThrough(id) == LongestChainTo(id) + LongestChainFrom(id) - DurationOf(id)

ProjectLength == MaxOf({0} \cup {LongestChainTo(id) : id \in IdsOf(todos)})

C21_CriticalIffOnLongestChain ==
    (ResultValid /\ \A t \in IdsOf(todos) : DurationOf(t) >= 0) =>
        /\ todos # <<>> => ProjectEnd - last.baseTime = ProjectLength
        /\ \A t \in IdsOf(todos) :
               last.result.scheduleData[t].isOnCriticalPath
                   <=> LongestChainThrough(t) = ProjectLength

\* A chain of two critical tasks, a connected task off the longest chain and
\* hence not critical.
C21_Witness ==
    /\ ResultValid
    /\ \E t, s, u \in IdsOf(todos) :
           /\ s \in SuccessorsOf(t) /\ u \in SuccessorsOf(t)
           /\ DurationOf(t) > 0
           /\ last.result.scheduleData[t].isOnCriticalPath
           /\ last.result.scheduleData[s].isOnCriticalPath
           /\ ~last.result.scheduleData[u].isOnCriticalPath
           /\ LongestChainThrough(u) < ProjectLength

(***************************************************************************)
(* C22.  In every valid result, for every task in every regime of the      *)
(* backward pass, the stored slack equals latestStart - earliestStart and  *)
(* latestFinish - latestStart equals the task's duration.                  *)
(***************************************************************************)
C22_SlackAndLatestConsistent ==
    ResultValid =>
        \A t \in IdsOf(todos) :
            LET entry == last.result.scheduleData[t]
            IN /\ entry.slack = entry.latestStart - entry.earliestStart
               /\ entry.latestFinish - entry.latestStart = DurationOf(t)

\* The regime of connected tasks beside an independent one, with positive
\* slack on a task of either kind and positive durations.
C22_Witness ==
    /\ ResultValid
    /\ \E t, u \in IdsOf(todos) :
           /\ ~Independent(t) /\ Independent(u)
           /\ DurationOf(t) > 0 /\ DurationOf(u) > 0
           /\ last.result.scheduleData[u].slack > 0
           /\ \E s \in IdsOf(todos) \ {u} : last.result.scheduleData[s].slack = 0

(***************************************************************************)
(* C23.  The criticalPath list respects dependency order: whenever a       *)
(* critical task T depends, directly or transitively, on a critical task   *)
(* D, D appears before T in criticalPath, zero-duration tasks and any      *)
(* assignment of ids included.                                             *)
(***************************************************************************)
C23_CriticalPathInDependencyOrder ==
    ResultValid =>
        LET criticalPath == last.result.criticalPath
        IN \A i, j \in 1..Len(criticalPath) :
               Reaches(todos, criticalPath[j], criticalPath[i]) => i < j

(***************************************************************************)
(* C24.  As stated: for an acyclic task list, distinct ids a and b both    *)
(* present in it and a not already depending directly on b,                *)
(* validateDependency(tasks, a, b).isValid equals the isValid of           *)
(* calculateCriticalPath on the tasks with the dependency of a on b added. *)
(***************************************************************************)
Recalculated == Validated /\ Has(last, "recalculated")

RecalculatedValid == Has(last.recalculated, "isValid") /\ last.recalculated.isValid

ProposedOnAcyclic ==
    /\ Recalculated
    /\ ~HasCycle(todos)
    /\ last.fromTodoId # last.toTodoId
    /\ {last.fromTodoId, last.toTodoId} \subseteq IdsOf(todos)
    /\ ~Edge(todos, last.fromTodoId, last.toTodoId)

C24_ChecksAgree_AsStated ==
    ProposedOnAcyclic => (last.result.isValid <=> RecalculatedValid)

\* C24, amended: the two checks agree when, in addition, every dependency of
\* the task list references a task of the list; a reference to a missing
\* task is accepted by validateDependency and fails the recalculation.
C24_ChecksAgreeWithoutDangling ==
    (ProposedOnAcyclic /\ NoDanglingReference(todos)) =>
        (last.result.isValid <=> RecalculatedValid)

\* A chain of three todos and the dependency that closes it: rejected by the
\* validation and reported as a cycle by the recalculation.
C24_Witness ==
    /\ ProposedOnAcyclic /\ NoDanglingReference(todos)
    /\ Len(todos) = 3
    /\ ~last.result.isValid
    /\ Has(last.recalculated, "circularDependency")
    /\ Cardinality(Range(last.recalculated.circularDependency.cycle)) = 3

(***************************************************************************)
(* CriticalPathService.getCriticalPath over a store of todos: findMany,    *)
(* the mapping to the engine's input, the engine, the result object.       *)
(* todos holds the rows of the store, estimatedDays 0 standing for a       *)
(* stored 0 or null.                                                       *)
(***************************************************************************)
\* Mutant: the stored estimatedDays is passed on as it is.
todosForCalculation_NoDefault(rows) == rows

\* todos.map(t => ({..., estimatedDays: t.estimatedDays || 1, ...}))
todosForCalculation(rows) ==
    [i \in 1..Len(rows) |->
        [rows[i] EXCEPT !.estimatedDays = IF @ = 0 THEN 1 ELSE @]]

GetCriticalPath(baseTime) ==
    /\ last = NoCall
    /\ last' = [op |-> "getCriticalPath", baseTime |-> baseTime,
                result |-> criticalPathResult(
                               calculateCriticalPath(todosForCalculation(todos), baseTime),
                               Len(todos))]
    /\ UNCHANGED <<todos, serviceVars>>

NextGet ==
    \/ /\ last = NoCall
       /\ \E id \in TaskIds \ IdsOf(todos) :
              \E deps \in DepListsFor(id, DepListsOverTasks), days \in 0..MaxDays :
                  CreateMockTodo(id, deps, days)
    \/ /\ last = NoCall
       /\ \E baseTime \in NowValues : GetCriticalPath(baseTime)

SpecGet == Init /\ [][NextGet]_vars

(***************************************************************************)
(* C25.  Whenever the stored graph is valid and holds at least one task,   *)
(* getCriticalPath returns a projectEndDate equal to the maximum           *)
(* earliestFinish over all tasks of the schedule.                          *)
(***************************************************************************)
Got == last.op = "getCriticalPath"

C25_ProjectEndDateIsProjectEnd ==
    (Got /\ last.result.isValid /\ last.result.totalTasks >= 1) =>
        LET scheduleData == last.result.scheduleData
        IN last.result.projectEndDate =
               <<MaxOf({scheduleData[id].earliestFinish : id \in DOMAIN scheduleData})>>

\* Three tasks, one of them stored without a duration and depended on by a
\* task of smaller id, one not critical and finishing before the project end.
C25_Witness ==
    /\ Got /\ last.result.isValid /\ last.result.totalTasks = 3
    /\ \E t, d, u \in IdsOf(todos) :
           /\ Edge(todos, t, d) /\ t < d
           /\ todoMapGet(todos, d).estimatedDays = 0
           /\ u \notin Range(last.result.criticalPath)
           /\ <<last.result.scheduleData[u].earliestFinish>> # last.result.projectEndDate
           /\ {t, d} \subseteq Range(last.result.criticalPath)

(***************************************************************************)
(* C26.  addDependency fails atomically: whenever the call ends by         *)
(* throwing, a failure of the follow-up recalculation included, the        *)
(* persisted dependency edges are as they were before the call: the call   *)
(* has stored no row.                                                      *)
(***************************************************************************)
C26_FailedAddStoresNothing ==
    \A c \in 1..MaxCalls :
        (calls[c].pc = "failed" /\ calls[c].op = "addDependency")
            => ~calls[c].created

(***************************************************************************)
(* CriticalPathQueue.  A task is the number of the enqueue call that       *)
(* brought it.  Time is kept relative: timeSinceLastRun is what process    *)
(* computes from Date.now() and lastRun, timers hold the delay they have   *)
(* left, and both are counted in halves of minInterval.                    *)
(***************************************************************************)
MaxEnqueues == 4

engineAndServiceVars == <<engineVars, storeDeps, storeSchedule, calls, cacheVars>>

\* setTimeout(() => this.process(), delay)
setTimeout(pending, delay) == [pending EXCEPT ![delay] = @ + 1]

\* Mutant: the oldest pending task is run.
taskToRun_Oldest(pendingTasks) == pendingTasks[1]

\* const task = this.queue[this.queue.length - 1]
taskToRun(pendingTasks) == pendingTasks[Len(pendingTasks)]

\* Mutant: no timer is set when a run ends.
timersAfterRun_None(pendingTasks, pending) == pending

\* finally: if (this.queue.length > 0) setTimeout(() => this.process(), minInterval)
timersAfterRun(pendingTasks, pending) ==
    IF Len(pendingTasks) > 0 THEN setTimeout(pending, minInterval) ELSE pending

\* process(), up to its await, on the queue pendingTasks and the timers
\* pending; latest is the number of tasks enqueued so far, caller the code
\* that called process.
process(pendingTasks, pending, latest, caller) ==
    IF processing \/ Len(pendingTasks) = 0
    THEN /\ taskQueue' = pendingTasks
         /\ timers' = pending
         /\ UNCHANGED <<processing, running, started>>
    ELSE IF timeSinceLastRun < minInterval
    THEN /\ taskQueue' = pendingTasks
         /\ timers' = setTimeout(pending, minInterval - timeSinceLastRun)
         /\ UNCHANGED <<processing, running, started>>
    ELSE /\ processing' = TRUE
         /\ taskQueue' = <<>>
         /\ timers' = pending
         /\ running' = running \cup {taskToRun(pendingTasks)}
         /\ started' = Append(started, [task |-> taskToRun(pendingTasks),
                                        latest |-> latest,
                                        caller |-> caller,
                                        pendingTasks |-> pendingTasks,
                                        sinceLastEnd |-> timeSinceLastEnd])

\* enqueue(task): push, then process().
Enqueue ==
    /\ enqueued < MaxEnqueues
    /\ enqueued' = enqueued + 1
    /\ process(Append(taskQueue, enqueued + 1), timers, enqueued + 1, "enqueue")
    /\ UNCHANGED <<timeSinceLastRun, timeSinceLastEnd, hookVars, engineAndServiceVars>>

\* A timer whose delay has passed calls process().
TimerFires ==
    /\ timers[0] > 0
    /\ process(taskQueue, [timers EXCEPT ![0] = @ - 1], enqueued, "setTimeout")
    /\ UNCHANGED <<timeSinceLastRun, timeSinceLastEnd, enqueued, hookVars,
                   engineAndServiceVars>>

\* await task() resolves: lastRun = Date.now(), then the finally block.
TaskResolves(task) ==
    /\ task \in running
    /\ running' = running \ {task}
    /\ timeSinceLastRun' = 0
    /\ timeSinceLastEnd' = 0
    /\ processing' = FALSE
    /\ timers' = timersAfterRun(taskQueue, timers)
    /\ UNCHANGED <<taskQueue, enqueued, started, hookVars, engineAndServiceVars>>

\* await task() rejects: the finally block alone, lastRun is not set.
TaskRejects(task) ==
    /\ task \in running
    /\ running' = running \ {task}
    /\ timeSinceLastEnd' = 0
    /\ processing' = FALSE
    /\ timers' = timersAfterRun(taskQueue, timers)
    /\ UNCHANGED <<taskQueue, timeSinceLastRun, enqueued, started, hookVars,
                   engineAndServiceVars>>

UpTo(limit, x) == IF x > limit THEN limit ELSE x

\* Half of minInterval passes.
TimePasses ==
    LET step == minInterval \div 2 IN
    /\ timeSinceLastRun' = UpTo(minInterval, timeSinceLastRun + step)
    /\ timeSinceLastEnd' = UpTo(minInterval, timeSinceLastEnd + step)
    /\ timers' = [d \in Delays |->
                     (IF d = 0 THEN timers[0] ELSE 0)
                     + (IF d + step \in Delays THEN timers[d + step] ELSE 0)]
    /\ UNCHANGED <<taskQueue, processing, running, enqueued, started, hookVars,
                   engineAndServiceVars>>

NextQueue ==
    \/ Enqueue
    \/ TimerFires
    \/ \E task \in running : TaskResolves(task)
    \/ \E task \in running : TaskRejects(task)
    \/ TimePasses

SpecQueue == Init /\ [][NextQueue]_vars

\* Every task terminates, timers fire and time passes.
SpecQueueFair ==
    /\ Init
    /\ [][NextQueue]_vars
    /\ WF_vars(TimerFires)
    /\ WF_vars(\E task \in running : TaskResolves(task) \/ TaskRejects(task))
    /\ WF_vars(TimePasses)

(***************************************************************************)
(* C27.  CriticalPathQueue coalesces bursts: each run the queue starts     *)
(* executes only the most recently enqueued pending task and discards      *)
(* every older pending task, so a task superseded by a later enqueue       *)
(* before a run started is never executed.                                 *)
(***************************************************************************)
StartedTasks == {started[i].task : i \in 1..Len(started)}

C27_RunsOnlyLatest ==
    \A i \in 1..Len(started) :
        /\ started[i].task = started[i].latest
        /\ \A p \in Range(started[i].pendingTasks) \ {started[i].task} :
               p \notin StartedTasks
        /\ \A p \in Range(taskQueue) : p > started[i].latest

\* A run started by a timer on a burst of three pending tasks, two of them
\* discarded.
C27_Witness ==
    \E i \in 1..Len(started) :
        /\ Len(started[i].pendingTasks) = 3
        /\ started[i].caller = "setTimeout"
        /\ started[i].task = enqueued

(***************************************************************************)
(* C28.  CriticalPathQueue loses no final request: when every task         *)
(* terminates and timers fire, the last enqueued task is eventually        *)
(* executed, also when it was enqueued while another task was running or   *)
(* during the throttle wait.                                               *)
(***************************************************************************)
C28_LastRequestRuns ==
    \A k \in 1..MaxEnqueues :
        (enqueued = k) ~> (enqueued > k \/ k \in StartedTasks)

\* The last task enqueued was left pending by its enqueue call, while a task
\* ran or in the throttle wait, and has been started by a timer.
C28_Witness ==
    /\ enqueued > 1
    /\ \E i \in 2..Len(started) :
           /\ started[i].task = enqueued
           /\ started[i].caller = "setTimeout"

(***************************************************************************)
(* C29.  CriticalPathQueue enforces a minimum of minInterval between       *)
(* calculations: no task run starts less than minInterval after the        *)
(* previous task run ended, whether it completed normally or threw, and    *)
(* at most one task is running at any time.                                *)
(***************************************************************************)
C29_MinIntervalBetweenRuns ==
    /\ Cardinality(running) <= 1
    /\ \A i \in 2..Len(started) : started[i].sinceLastEnd >= minInterval

(***************************************************************************)
(* useOptimisticTodos.  optimisticTodos maps the ids of the todos shown to *)
(* their completed flag; a state update is taken to be rendered before the *)
(* next call, so every callback sees the latest state.                     *)
(***************************************************************************)
MaxAwaiting == 2

\* The todo lists over the ids of the client.
TodoLists == UNION {[ids -> BOOLEAN] : ids \in SUBSET UiIds}

RemoveAt(s, i) == [k \in 1..(Len(s) - 1) |-> IF k < i THEN s[k] ELSE s[k + 1]]

nonHookVars == <<engineVars, storeDeps, storeSchedule, calls, cacheVars, queueVars>>

\* syncTodos(realTodos)
SyncTodos(realTodos) ==
    /\ IF Cardinality(pendingActions) = 0
       THEN /\ optimisticTodos' = realTodos
            /\ overwritten' = (overwritten \/ Len(awaiting) > 0)
       ELSE UNCHANGED <<optimisticTodos, overwritten>>
    /\ UNCHANGED <<pendingActions, awaiting, nonHookVars>>

\* optimisticToggleComplete(id, actualToggle) up to await actualToggle().
OptimisticToggleComplete(id) ==
    /\ Len(awaiting) < MaxAwaiting
    /\ optimisticTodos' = [t \in DOMAIN optimisticTodos |->
                              IF t = id THEN ~optimisticTodos[t] ELSE optimisticTodos[t]]
    /\ pendingActions' = pendingActions \cup {<<"toggle", id>>}
    /\ awaiting' = Append(awaiting, [actionKey |-> <<"toggle", id>>])
    /\ UNCHANGED <<overwritten, nonHookVars>>

\* optimisticDelete(id, actualDelete) up to await actualDelete().
OptimisticDelete(id) ==
    /\ Len(awaiting) < MaxAwaiting
    /\ optimisticTodos' = [t \in DOMAIN optimisticTodos \ {id} |-> optimisticTodos[t]]
    /\ pendingActions' = pendingActions \cup {<<"delete", id>>}
    /\ awaiting' = Append(awaiting, [actionKey |-> <<"delete", id>>,
                                     originalTodos |-> optimisticTodos])
    /\ UNCHANGED <<overwritten, nonHookVars>>

\* The server call of the i-th awaiting action resolves: the finally block.
ActualResolves(i) ==
    /\ pendingActions' = pendingActions \ {awaiting[i].actionKey}
    /\ awaiting' = RemoveAt(awaiting, i)
    /\ UNCHANGED <<optimisticTodos, overwritten, nonHookVars>>

\* The server call rejects: optimisticDelete rolls back to originalTodos,
\* optimisticToggleComplete has no catch; then the finally block.
ActualRejects(i) ==
    /\ optimisticTodos' = IF awaiting[i].actionKey[1] = "delete"
                          THEN awaiting[i].originalTodos
                          ELSE optimisticTodos
    /\ pendingActions' = pendingActions \ {awaiting[i].actionKey}
    /\ awaiting' = RemoveAt(awaiting, i)
    /\ UNCHANGED <<overwritten, nonHookVars>>

NextHook ==
    \/ \E realTodos \in TodoLists : SyncTodos(realTodos)
    \/ \E id \in UiIds : OptimisticToggleComplete(id)
    \/ \E id \in UiIds : OptimisticDelete(id)
    \/ \E i \in 1..Len(awaiting) : ActualResolves(i)
    \/ \E i \in 1..Len(awaiting) : ActualRejects(i)

SpecHook == Init /\ [][NextHook]_vars

(***************************************************************************)
(* C30.  While any optimistic action (optimisticToggleComplete or          *)
(* optimisticDelete) is awaiting its server call, pendingActions is not    *)
(* empty and syncTodos does not overwrite optimisticTodos, under any       *)
(* interleaving, two overlapping actions on the same todo id included.     *)
(***************************************************************************)
C30_PendingWhileAwaiting ==
    /\ Len(awaiting) > 0 => Cardinality(pendingActions) > 0
    /\ ~overwritten

====
